---- MODULE Spec2Model ----
(***************************************************************************)
(* Model of the throttled, self-retrying query dispatcher of package       *)
(* anaconda (src/twitter.go): one TwitterApi client, its unbuffered        *)
(* queryQueue, the throttledQuery goroutine, the callers that submit       *)
(* queries, and the goroutine that enables / disables rate limiting.       *)
(*                                                                         *)
(* Line 211 of the source names the field c.QueryQueue; the struct only    *)
(* has queryQueue, and the comment on line 209 says "re-add the job to the *)
(* queue", so the send is modelled as a send on c.queryQueue.              *)
(***************************************************************************)
EXTENDS Integers, Sequences, FiniteSets, TLC

\* ------------------------------------------------------------------ bounds
NumCallers == 2
MaxReq == 2
MaxConfig == 2
MaxTime == 2
MaxExec == 2

\* ------------------------------------------------- constants of the program
_GET == 0
_POST == 1

Callers == 1..NumCallers
\* a method tag is an int: _GET, _POST, or any other value (2 stands for those)
Methods == {_GET, _POST, 2}
\* capacities and refill intervals a caller passes to EnableRateLimiting
Caps == {1}
Rates == {1, 2}
\* the server-declared reset instant is now + d
ResetDelays == {1, 2}

Nil == "nil"
NoBucket == 0
NoQuery == [owner |-> 0, seq |-> 0, method |-> _GET, data |-> <<"data", 0, 0>>, response_ch |-> <<"ch", 0, 0>>]
NoResponse == [ch |-> <<"ch", 0, 0>>, data |-> <<"data", 0, 0>>, err |-> Nil, by |-> NoQuery]

\* what one signed call plus decodeResponse can return
TransportOutcomes == {Nil, "ratelimit", "apierr", "transport", "decode"}

VARIABLES
  pc,          \* position of the throttledQuery goroutine
  q,           \* the query received on line 191
  data,        \* local of line 194
  method,      \* local of line 195
  response_ch, \* local of line 197
  err,         \* local of line 203
  nextWindow,  \* reset instant of the last rate-limit rejection (line 208)
  spendOn,     \* bucket whose SpendToken(1) the dispatcher waits on, or NoBucket
  paid,        \* TRUE when a token was acquired in this pass
  out,         \* the response being sent on line 219
  cpc,         \* position of each caller
  creq,        \* the query each caller built last
  nsub,        \* number of queries each caller has built
  hist,        \* every value written to c.bucket, oldest first
  seenIdx,     \* index in hist of the last write the dispatcher observed
  buckets,     \* the buckets created so far (index = pointer value)
  now,         \* wall clock
  recvLog,     \* the queries the queue handed to the dispatcher, in order
  execLog,     \* one entry per call of execQuery, in order
  sent,        \* responses handed over on a response channel, in order
  requeued,    \* queries for which the send of line 211 was started
  inStep       \* queries received and not yet delivered, re-queued or dropped

vars == <<pc, q, data, method, response_ch, err, nextWindow, spendOn, paid, out,
          cpc, creq, nsub, hist, seenIdx, buckets, now,
          recvLog, execLog, sent, requeued, inStep>>

dispVars == <<pc, q, data, method, response_ch, err, nextWindow, spendOn, paid, out>>
callerVars == <<cpc, creq, nsub>>
bucketVars == <<hist, seenIdx, buckets>>
logVars == <<recvLog, execLog, sent, requeued, inStep>>

\* ---------------------------------------------------------------- helpers
Min(a, b) == IF a < b THEN a ELSE b

\* the query a caller builds for its k-th public call: a fresh output target
\* and a fresh private response channel
NewQuery(c, k, m) ==
  [owner |-> c, seq |-> k, method |-> m,
   data |-> <<"data", c, k>>, response_ch |-> <<"ch", c, k>>]

\* c.bucket as last written
CurrentBucket == hist[Len(hist)]

\* tokenbucket.NewBucket(rate, bufferSize): starts full
NewBucket(rate, capacity) ==
  [cap |-> capacity, rate |-> rate, tokens |-> capacity, born |-> now]

Refill_NoCapacity(b, t) ==
  IF (t - b.born) % b.rate = 0
    THEN [b EXCEPT !.tokens = b.tokens + 1]
    ELSE b

\* one refill interval of a bucket elapses at instant t
Refill(b, t) ==
  IF (t - b.born) % b.rate = 0
    THEN [b EXCEPT !.tokens = Min(b.cap, b.tokens + 1)]
    ELSE b

\* number of refill intervals of b elapsed so far
Elapsed(b) == (now - b.born) \div b.rate

\* err.(*ApiError)
IsApiError(e) == e \in {"ratelimit", "apierr"}

\* apiErr.RateLimitCheck()
RateLimitCheck(e) == e = "ratelimit"

\* execQuery: only the _GET and _POST cases reach the transport
TransportCalled(m) == m = _GET \/ m = _POST

\* execQuery: the method switch
ExecQuery(m, o) ==
  IF m = _GET THEN o
  ELSE IF m = _POST THEN o
  ELSE "unsupported"

Classify_RetryAnyApiError(e) ==
  IF e # Nil
    THEN IF IsApiError(e) THEN "requeue" ELSE "recv"
    ELSE "deliver"

\* the branch throttledQuery takes on the error of execQuery
Classify(e) ==
  IF e # Nil
    THEN IF IsApiError(e) /\ RateLimitCheck(e) THEN "requeue" ELSE "recv"
    ELSE "deliver"

AfterDeliver_SendAgain == "deliver"

AfterDeliver_ExecAgain == "exec"

\* the loop goes back to the receive of line 191
AfterDeliver == "recv"

CanReceive_Always == TRUE

\* the loop body runs for one query at a time: the receive of line 191 is
\* reached only from the end of the body
CanReceive == pc = "recv"

LocalData_Shared(x) == NoQuery.data

\* line 194
LocalData(x) == x.data

LocalResponseCh_First(x) == NewQuery(1, 1, _GET).response_ch

\* line 197
LocalResponseCh(x) == x.response_ch

BucketPresent_Always(v) == TRUE

\* line 199: c.bucket != nil
BucketPresent(v) == v # NoBucket

Alive == pc # "crashed"

ExecCount(x) == Cardinality({i \in 1..Len(execLog) : execLog[i].q = x})

RECURSIVE BuiltUpTo(_)
\* number of queries built by callers 1..n
BuiltUpTo(n) == IF n = 0 THEN 0 ELSE nsub[n] + BuiltUpTo(n - 1)

\* ------------------------------------------------------------------- Init
Init ==
  /\ pc = "recv"
  /\ q = NoQuery
  /\ data = NoQuery.data
  /\ method = _GET
  /\ response_ch = NoQuery.response_ch
  /\ err = Nil
  /\ nextWindow = 0
  /\ spendOn = NoBucket
  /\ paid = FALSE
  /\ out = NoResponse
  /\ cpc = [c \in Callers |-> "idle"]
  /\ creq = [c \in Callers |-> NoQuery]
  /\ nsub = [c \in Callers |-> 0]
  /\ hist = <<NoBucket>>
  /\ seenIdx = 1
  /\ buckets = <<>>
  /\ now = 0
  /\ recvLog = <<>>
  /\ execLog = <<>>
  /\ sent = <<>>
  /\ requeued = {}
  /\ inStep = {}

\* ---------------------------------------------------------------- callers
\* a public call: build the query and start the send on the unbuffered queue
Submit(c, m) ==
  /\ Alive
  /\ cpc[c] = "idle"
  /\ BuiltUpTo(NumCallers) < MaxReq
  /\ nsub' = [nsub EXCEPT ![c] = @ + 1]
  /\ creq' = [creq EXCEPT ![c] = NewQuery(c, nsub[c] + 1, m)]
  /\ cpc' = [cpc EXCEPT ![c] = "sending"]
  /\ UNCHANGED <<dispVars, bucketVars, now, logVars>>

EnableRateLimiting(rate, bufferSize) ==
  /\ Alive
  /\ Len(hist) <= MaxConfig
  /\ buckets' = Append(buckets, NewBucket(rate, bufferSize))
  /\ hist' = Append(hist, Len(buckets) + 1)
  /\ UNCHANGED <<seenIdx, dispVars, callerVars, now, logVars>>

DisableRateLimiting ==
  /\ Alive
  /\ Len(hist) <= MaxConfig
  /\ hist' = Append(hist, NoBucket)
  /\ UNCHANGED <<seenIdx, buckets, dispVars, callerVars, now, logVars>>

\* time passes; every bucket's ticker adds at most one token per interval
Tick ==
  /\ Alive
  /\ now < MaxTime
  /\ now' = now + 1
  /\ buckets' = [i \in 1..Len(buckets) |-> Refill(buckets[i], now + 1)]
  /\ UNCHANGED <<hist, seenIdx, dispVars, callerVars, logVars>>

\* ------------------------------------------------------------- dispatcher
\* line 191-197: receive from the unbuffered queue; the sender is released
Receive(c) ==
  /\ Alive
  /\ CanReceive
  /\ cpc[c] = "sending"
  /\ q' = creq[c]
  /\ data' = LocalData(creq[c])
  /\ method' = creq[c].method
  /\ response_ch' = LocalResponseCh(creq[c])
  /\ cpc' = [cpc EXCEPT ![c] = "awaiting"]
  /\ paid' = FALSE
  /\ spendOn' = NoBucket
  /\ pc' = "gate"
  /\ inStep' = inStep \cup {creq[c]}
  /\ recvLog' = Append(recvLog, creq[c])
  /\ UNCHANGED <<err, nextWindow, out, creq, nsub, bucketVars, now,
                 execLog, sent, requeued>>

\* line 199: the unsynchronised read of c.bucket observes any write that is
\* not older than the last one observed
GateCheck(i) ==
  /\ Alive
  /\ pc = "gate"
  /\ i \in seenIdx..Len(hist)
  /\ seenIdx' = i
  /\ pc' = IF BucketPresent(hist[i]) THEN "spend" ELSE "exec"
  /\ UNCHANGED <<q, data, method, response_ch, err, nextWindow, spendOn, paid, out,
                 callerVars, hist, buckets, now, logVars>>

\* line 200: c.bucket is read again for the call of SpendToken; a nil
\* bucket is dereferenced and the process panics
SpendToken(i) ==
  /\ Alive
  /\ pc = "spend"
  /\ i \in seenIdx..Len(hist)
  /\ seenIdx' = i
  /\ spendOn' = hist[i]
  /\ pc' = IF hist[i] # NoBucket THEN "wait" ELSE "crashed"
  /\ UNCHANGED <<q, data, method, response_ch, err, nextWindow, paid, out,
                 callerVars, hist, buckets, now, logVars>>

\* line 200: the receive from the channel SpendToken returned completes
\* when the bucket has granted one token
TokenGranted ==
  /\ Alive
  /\ pc = "wait"
  /\ buckets[spendOn].tokens >= 1
  /\ buckets' = [buckets EXCEPT ![spendOn].tokens = @ - 1]
  /\ paid' = TRUE
  /\ pc' = "exec"
  /\ UNCHANGED <<q, data, method, response_ch, err, nextWindow, spendOn, out,
                 callerVars, hist, seenIdx, now, logVars>>

\* line 203-217: execQuery and the classification of its error
Exec(o, d) ==
  /\ Alive
  /\ pc = "exec"
  /\ ExecCount(q) < MaxExec
  /\ LET e == ExecQuery(method, o)
         branch == Classify(e)
     IN /\ err' = IF branch = "recv" THEN Nil ELSE e
        /\ q' = IF branch = "recv" THEN NoQuery ELSE q
        /\ data' = IF branch = "recv" THEN NoQuery.data ELSE data
        /\ method' = IF branch = "recv" THEN _GET ELSE method
        /\ response_ch' = IF branch = "recv" THEN NoQuery.response_ch ELSE response_ch
        /\ paid' = IF branch = "recv" THEN FALSE ELSE paid
        /\ spendOn' = IF branch = "recv" THEN NoBucket ELSE spendOn
        /\ execLog' = Append(execLog,
             [q |-> q, out |-> e, paid |-> paid, cfg |-> CurrentBucket,
              called |-> TransportCalled(method)])
        /\ pc' = branch
        /\ nextWindow' = IF branch = "requeue" THEN now + d ELSE nextWindow
        /\ out' = IF branch = "deliver"
                    THEN [ch |-> response_ch, data |-> data, err |-> e, by |-> q]
                    ELSE out
        /\ requeued' = IF branch = "requeue" THEN requeued \cup {q} ELSE requeued
        /\ inStep' = IF branch = "deliver" THEN inStep ELSE inStep \ {q}
  /\ UNCHANGED <<callerVars, bucketVars, now, sent, recvLog>>

\* line 219-223: the send on the private channel completes when its caller
\* receives
Deliver(c) ==
  /\ Alive
  /\ pc = "deliver"
  /\ cpc[c] = "awaiting"
  /\ creq[c].response_ch = out.ch
  /\ sent' = Append(sent, [ch |-> out.ch, data |-> out.data, err |-> out.err, by |-> out.by, to |-> c])
  /\ cpc' = [cpc EXCEPT ![c] = "idle"]
  /\ creq' = [creq EXCEPT ![c] = NoQuery]
  /\ inStep' = inStep \ {out.by}
  /\ pc' = AfterDeliver
  /\ IF AfterDeliver = "recv"
       THEN /\ q' = NoQuery
            /\ data' = NoQuery.data
            /\ method' = _GET
            /\ response_ch' = NoQuery.response_ch
            /\ err' = Nil
            /\ paid' = FALSE
            /\ spendOn' = NoBucket
            /\ out' = NoResponse
       ELSE UNCHANGED <<q, data, method, response_ch, err, paid, spendOn, out>>
  /\ UNCHANGED <<nextWindow, nsub, bucketVars, now, recvLog, execLog, requeued>>

\* pc = "requeue": the dispatcher is a sender on its own unbuffered queue
\* (line 90, line 211).  The only receive on that queue is line 191, which
\* this same goroutine executes at pc = "recv": no step leaves "requeue".

Next ==
  \/ \E c \in Callers, m \in Methods : Submit(c, m)
  \/ \E r \in Rates, n \in Caps : EnableRateLimiting(r, n)
  \/ DisableRateLimiting
  \/ Tick
  \/ \E c \in Callers : Receive(c)
  \/ \E i \in 1..(MaxConfig + 2) : GateCheck(i)
  \/ \E i \in 1..(MaxConfig + 2) : SpendToken(i)
  \/ TokenGranted
  \/ \E o \in TransportOutcomes, d \in ResetDelays : Exec(o, d)
  \/ \E c \in Callers : Deliver(c)

Spec == Init /\ [][Next]_vars

\* the steps of the throttledQuery goroutine
DispatcherStep ==
  \/ \E c \in Callers : Receive(c)
  \/ \E i \in 1..(MaxConfig + 2) : GateCheck(i)
  \/ \E i \in 1..(MaxConfig + 2) : SpendToken(i)
  \/ TokenGranted
  \/ \E o \in TransportOutcomes, d \in ResetDelays : Exec(o, d)
  \/ \E c \in Callers : Deliver(c)

\* the Go scheduler runs every goroutine that can take a step, and time passes
FairSpec == Spec /\ WF_vars(DispatcherStep) /\ WF_vars(Tick) /\ WF_vars(Next)

\* ----------------------------------------------------------- vocabulary
AllQueries == {NewQuery(c, k, m) : c \in Callers, k \in 1..MaxReq, m \in Methods}

AllChannels == {x.response_ch : x \in AllQueries}

\* the send of line 219 has started and is waiting for its receiver
SendPending == pc = "deliver"

\* number of responses the dispatcher has written, or is writing, on ch
WritesOn(ch) ==
  Cardinality({j \in 1..Len(sent) : sent[j].ch = ch})
    + (IF SendPending /\ out.ch = ch THEN 1 ELSE 0)

\* an error that is not a rate-limit rejection
NonRetryable(e) == e # Nil /\ ~(IsApiError(e) /\ RateLimitCheck(e))

RateLimited(e) == IsApiError(e) /\ RateLimitCheck(e)

\* every execution of x so far was rejected as rate-limited
AllRejected(x) ==
  \A i \in 1..Len(execLog) : execLog[i].q = x => RateLimited(execLog[i].out)

\* the response for execution i has been handed over, or is the pending send
Written(i, e) ==
  \/ \E j \in 1..Len(sent) :
       /\ sent[j].by = execLog[i].q
       /\ sent[j].ch = execLog[i].q.response_ch
       /\ sent[j].err = e
  \/ /\ i = Len(execLog)
     /\ SendPending
     /\ out.by = execLog[i].q
     /\ out.ch = execLog[i].q.response_ch
     /\ out.err = e

\* C1: whenever an execution returned an error that is not a rate-limit
\* rejection, one response carrying that error is written to the query's
\* private channel before the dispatcher receives the next query.
C1_ErrorDelivered ==
  \A i \in 1..Len(execLog) :
    NonRetryable(execLog[i].out) => Written(i, execLog[i].out)

\* C2: over the whole lifetime of a query the dispatcher writes at most one
\* response to its private channel.
C2_AtMostOneResult ==
  \A ch \in AllChannels : WritesOn(ch) <= 1

C2_Witness ==
  /\ pc = "gate"
  /\ \E j \in 1..Len(sent) : WritesOn(sent[j].ch) = 1

\* C4: whenever an execution returned no error, a response with a nil error
\* and the query's own output target is written to the query's private
\* channel before the dispatcher receives the next query.
C4_SuccessDelivered ==
  \A i \in 1..Len(execLog) :
    execLog[i].out = Nil =>
      /\ Written(i, Nil)
      /\ \A j \in 1..Len(sent) :
           sent[j].by = execLog[i].q => sent[j].data = execLog[i].q.data
      /\ (SendPending /\ out.by = execLog[i].q) => out.data = execLog[i].q.data

C4_Witness ==
  /\ pc = "recv"
  /\ \E i \in 1..Len(execLog) :
       /\ execLog[i].out = Nil
       /\ \E j \in 1..Len(sent) :
            sent[j].by = execLog[i].q /\ sent[j].err = Nil
              /\ sent[j].data = execLog[i].q.data

\* rate limiting was never enabled: every value written to c.bucket is nil
RateLimitingOff == \A i \in 1..Len(hist) : hist[i] = NoBucket

NoRateLimitRejection == \A i \in 1..Len(execLog) : ~RateLimited(execLog[i].out)

\* c is the only caller that has built a query
SoleCaller(c) == \A d \in Callers \ {c} : nsub[d] = 0

\* C5: with rate limiting disabled and no rate-limit rejection, the queries a
\* single caller submits one after another are executed in submission order,
\* each once, and their responses are delivered in that same order.
C5_FifoSingleCaller ==
  \A c \in Callers :
    (SoleCaller(c) /\ RateLimitingOff /\ NoRateLimitRejection) =>
      /\ \A i \in 1..Len(execLog) :
           execLog[i].q.owner = c /\ execLog[i].q.seq = i
      /\ \A j \in 1..Len(sent) :
           sent[j].to = c /\ sent[j].by.owner = c /\ sent[j].by.seq = j

C5_Witness ==
  \E c \in Callers :
    /\ SoleCaller(c) /\ RateLimitingOff /\ NoRateLimitRejection
    /\ Len(execLog) = MaxReq
    /\ Len(sent) = MaxReq

\* C6: at most one query is in the gate-or-execute step at any time.
C6_OneInStep == Cardinality(inStep) <= 1

C6_Witness ==
  /\ pc = "exec"
  /\ Cardinality(inStep) = 1
  /\ \E c \in Callers : cpc[c] = "sending"

\* C7: every response goes to the private channel of the query whose
\* execution produced it, and is received by the caller that built that query.
C7_NoCrossDelivery ==
  /\ \A j \in 1..Len(sent) :
       sent[j].ch = sent[j].by.response_ch /\ sent[j].to = sent[j].by.owner
  /\ SendPending => out.ch = out.by.response_ch

C7_Witness ==
  \E j \in 1..Len(sent) :
    \E d \in Callers \ {sent[j].to} : cpc[d] = "awaiting"

\* number of executions started while bucket b was the configured bucket
StartedUnder(b) == Cardinality({i \in 1..Len(execLog) : execLog[i].cfg = b})

\* C8: while a bucket is configured every execution is preceded by the
\* acquisition of one token, so the executions started under a bucket never
\* exceed its capacity plus its elapsed refill intervals.
C8_EveryExecutionGated ==
  /\ \A i \in 1..Len(execLog) : execLog[i].cfg # NoBucket => execLog[i].paid
  /\ \A b \in 1..Len(buckets) :
       StartedUnder(b) <= buckets[b].cap + Elapsed(buckets[b])

\* C10: a query whose execution returned an error that is not a rate-limit
\* rejection is executed exactly once and is never re-queued.
C10_NoRetryOnError ==
  \A x \in AllQueries :
    (\E i \in 1..Len(execLog) : execLog[i].q = x /\ NonRetryable(execLog[i].out))
      => ExecCount(x) = 1 /\ x \notin requeued

C10_Witness ==
  \E i \in 1..Len(execLog) :
    /\ NonRetryable(execLog[i].out)
    /\ execLog[i].cfg # NoBucket
    /\ i < Len(execLog)

\* C3: a query rejected as rate-limited on its first execution is executed a
\* second time, and when that execution succeeds exactly one response, with
\* no error, reaches its caller, not before the reset instant.
C3_RetryTransparency ==
  \A x \in AllQueries :
    /\ (ExecCount(x) = 1 /\ AllRejected(x)) ~> (ExecCount(x) >= 2)
    /\ [](ExecCount(x) = 2 => WritesOn(x.response_ch) <= 1)
    /\ []((SendPending /\ out.by = x /\ ExecCount(x) = 2)
            => out.err = Nil /\ now >= nextWindow)

\* C9: a query rejected on every execution is executed again after each
\* rejection, and no response carries a rate-limit error.
C9_RetriesWithoutBound ==
  /\ \A x \in AllQueries : \A k \in 1..MaxExec :
       [](x \in requeued /\ ExecCount(x) = k /\ AllRejected(x)
            => <>(ExecCount(x) > k))
  /\ [](\A j \in 1..Len(sent) : ~RateLimited(sent[j].err))

\* C11: a query whose method tag is neither GET nor POST causes no transport
\* call, is executed once, is never re-queued, and its caller receives the
\* unsupported-method error.
C11_UnsupportedMethod ==
  \A i \in 1..Len(execLog) :
    (execLog[i].q.method \notin {_GET, _POST}) =>
      /\ ~execLog[i].called
      /\ execLog[i].out = "unsupported"
      /\ ExecCount(execLog[i].q) = 1
      /\ execLog[i].q \notin requeued
      /\ Written(i, "unsupported")

\* the points where the dispatcher may wait: the receive of line 191, the
\* token of line 200 and the sleep of line 212
BlockingPoints == {"recv", "wait", "sleep"}

\* C12: the dispatcher is blocked only while receiving the next query, while
\* waiting for a token or while sleeping until the reset instant; everywhere
\* else, the re-submission of a rate-limited query included, it can take
\* its next step.
C12_BlocksOnlyAtThreePoints ==
  Alive => (pc \in BlockingPoints \/ ENABLED DispatcherStep)

\* C13: after a rate-limit rejection with reset instant T the dispatcher
\* re-submits the query, waits until T and drains the bucket, which ends the
\* pass not before T; it writes no response for that query in the pass and
\* starts no execution before the pass has ended.
C13_RequeueWaitDrain ==
  /\ [](pc = "requeue" => <>(pc = "recv" /\ now >= nextWindow))
  /\ [](pc = "requeue" => WritesOn(q.response_ch) = 0)
  /\ [][pc = "requeue" => execLog' = execLog]_vars

\* executions follow the order in which the queue handed the queries over,
\* each query is executed before the next one is taken, and the queries of
\* one caller are executed in the order that caller submitted them
ExecutedInQueueOrder ==
  /\ Len(execLog) <= Len(recvLog)
  /\ Len(recvLog) <= Len(execLog) + 1
  /\ \A i \in 1..Len(execLog) : execLog[i].q = recvLog[i]
  /\ \A i, j \in 1..Len(execLog) :
       (i < j /\ execLog[i].q.owner = execLog[j].q.owner)
         => execLog[i].q.seq <= execLog[j].q.seq

\* a rejected query was executed again after a query of caller c
RetriedAfter(c) ==
  \E k, i, j \in 1..Len(execLog) :
    /\ k < i /\ i < j
    /\ RateLimited(execLog[k].out)
    /\ execLog[i].q.owner = c
    /\ execLog[j].q = execLog[k].q

\* C14: queries are executed in the order they were enqueued, and the retry
\* of a rate-limited query is executed after the queries of the other
\* callers that were waiting when it was re-enqueued.
C14_QueueOrderWithRetry ==
  /\ []ExecutedInQueueOrder
  /\ \A c \in Callers :
       []((pc = "requeue" /\ cpc[c] = "sending") => <>RetriedAfter(c))

C17_AcquiredBucketPresent ==
  pc \in {"wait", "crashed"} => (spendOn # NoBucket /\ pc # "crashed")
====
